---- MODULE Spec2Model ----
(***************************************************************************)
(* The open-system scheduler of CoMeT (common/scheduler/scheduler_open.cc) *)
(* as a state machine.  One action per hook the host simulator calls:      *)
(* threadCreate, threadExit, periodic; the simulated clock advances in a   *)
(* separate step.  The private methods (schedule, setAffinity,             *)
(* executeMappingPolicy, fetchTasksIntoQueue, ...) are operators that      *)
(* map a scheduler state to the state the method leaves behind.            *)
(***************************************************************************)
EXTENDS Integers, Sequences, FiniteSets, TLC

(***************************************************************************)
(* Bounds of the model.                                                    *)
(***************************************************************************)
NumTasks == 3        \* traceinput/num_apps
NumCores == 2        \* application cores
MaxWorkers == 2      \* worker threads (thread id >= NumTasks) the host creates
MaxTime == 3         \* the simulated clock stops advancing here
MaxGridCores == 30   \* core counts the grid computation is run for
MaxParallelism == 17 \* parallelism values the profile lookup is run for
MaxRate == 3         \* scheduler/open/arrivalRate is drawn from 1 .. MaxRate
MaxInterval == 2     \* scheduler/open/arrivalInterval is drawn from 0 .. MaxInterval
MaxDraw == 2         \* a truncated draw of the exponential distribution
mappingEpoch == 2    \* scheduler/open/epoch

ErrorCheckInterval == 1000000
\* UInt64 arithmetic wraps.  TLC computes with 32-bit integers, so the word
\* is scaled down; every time of the model is far below it, hence a wrapped
\* value is as recognisable here as it is in the 64-bit program.
UInt64Mod == 2^20

Tasks == 0 .. (NumTasks - 1)
Cores == 0 .. (NumCores - 1)
Times == 0 .. MaxTime

\* scheduler/open/explicitArrivalTimes: any list is accepted verbatim.
ArrivalTimes == {0, 2, 3}

\* traceinput/benchmarks: the descriptors suite-benchmark-input-parallelism
\* the runs of the model draw from (input is not used by the scheduler).
Descriptors ==
    { [suite |-> "splash2", benchmark |-> "fft", parallelism |-> p] : p \in 1 .. 3 }

\* scheduler/open/core_mask: all cores allowed, or the last core masked out.
CoreMasks ==
    { [c \in Cores |-> TRUE], [c \in Cores |-> c # NumCores - 1 \/ NumCores = 1] }

\* scheduler/open/preferred_core: 0, 1, ..., M-1.
preferredCoresOrder == [i \in 1 .. NumCores |-> i - 1]

VARIABLES
    openTasks,      \* task id -> task record
    systemCores,    \* core id -> [assignedTaskID, assignedThreadID]
    m_core_mask,    \* core id -> BOOLEAN
    now,            \* the host's simulated time (ns)
    created,        \* number of primary threads created so far (startup)
    workerApp,      \* app id of each worker thread, in creation order
    status,         \* "running", or why the process exited
    lastCall,       \* the hook that ran last: [op, thread, ret]
    admitOrder,     \* task ids in the order schedule made them active
    ctor            \* the constructor's position and local variables

vars == << openTasks, systemCores, m_core_mask, now, created, workerApp,
           status, lastCall, admitOrder, ctor >>

(***************************************************************************)
(* Benchmark profile table.                                                *)
(***************************************************************************)
Iota(n) == [i \in 1 .. n |-> i]
IotaFrom(a, n) == [i \in 1 .. n |-> a + i - 1]
Pow2Profile == << 1, 2, 0, 4, 0, 0, 0, 8, 0, 0, 0, 0, 0, 0, 0, 16 >>

requirementsTable(suite, benchmark) ==
    IF suite = "parsec" THEN
        CASE benchmark \in {"blackscholes", "canneal", "streamcluster", "swaptions"}
                 -> IotaFrom(2, 15)
          [] benchmark = "bodytrack" -> IotaFrom(3, 14)
          [] benchmark = "dedup" -> << 4, 7, 10, 13, 16 >>
          [] benchmark = "ferret" -> << 7, 11, 15 >>
          [] benchmark = "fluidanimate" -> << 2, 3, 0, 5, 0, 0, 0, 9 >>
          [] benchmark = "x264" -> << 1, 3, 4, 5, 6, 7, 8, 9 >>
          [] OTHER -> << >>
    ELSE
        CASE benchmark \in {"barnes", "cholesky", "fmm", "lu.cont", "lu.ncont",
                            "radiosity", "raytrace", "water.nsq"}
                 -> Iota(16)
          [] benchmark \in {"fft", "ocean.cont", "ocean.ncont", "radix", "water.sp"}
                 -> Pow2Profile
          [] OTHER -> << >>

\* The returned core requirement, or -1 where the code calls exit(1).
coreRequirementTranslation(d) ==
    IF d.parallelism < 1 THEN -1
    ELSE IF d.suite \notin {"parsec", "splash2"} THEN -1
    ELSE LET requirements == requirementsTable(d.suite, d.benchmark)
         IN  IF d.parallelism - 1 < Len(requirements)
             THEN requirements[d.parallelism]
             ELSE -1

(***************************************************************************)
(* Task and core records.                                                  *)
(***************************************************************************)
openTask(name, requirement, arrival) ==
    [ taskName |-> name,
      taskCoreRequirement |-> requirement,
      waitingToSchedule |-> TRUE,
      waitingInQueue |-> FALSE,
      active |-> FALSE,
      completed |-> FALSE,
      taskArrivalTime |-> arrival,
      taskStartTime |-> 0,
      taskDepartureTime |-> 0 ]

openCore == [ assignedTaskID |-> -1, assignedThreadID |-> -1 ]

\* The app id of a thread: primary thread i belongs to task i, a worker to
\* the task whose thread created it.
AppOf(W, thread_id) ==
    IF thread_id < NumTasks THEN thread_id ELSE W[thread_id - NumTasks + 1]

(***************************************************************************)
(* Derived counts.                                                         *)
(***************************************************************************)
MinOf(S) == CHOOSE x \in S : \A y \in S : x <= y

RECURSIVE SumOver(_, _)
SumOver(f, S) ==
    IF S = {} THEN 0
    ELSE LET x == CHOOSE y \in S : TRUE IN f[x] + SumOver(f, S \ {x})

MaxOf(S) == CHOOSE x \in S : \A y \in S : x >= y

\* Mutant: the loop has no break, so the last queued task is returned.
taskFrontOfQueue_Last(T) ==
    LET Q == { t \in Tasks : T[t].waitingInQueue }
    IN  IF Q = {} THEN -1 ELSE MaxOf(Q)

taskFrontOfQueue(T) ==
    LET Q == { t \in Tasks : T[t].waitingInQueue }
    IN  IF Q = {} THEN -1 ELSE MinOf(Q)

numberOfFreeCores(C) == Cardinality({ c \in Cores : C[c].assignedTaskID = -1 })
numberOfTasksInQueue(T) == Cardinality({ t \in Tasks : T[t].waitingInQueue })
numberOfTasksWaitingToSchedule(T) == Cardinality({ t \in Tasks : T[t].waitingToSchedule })
numberOfTasksCompleted(T) == Cardinality({ t \in Tasks : T[t].completed })
numberOfActiveTasks(T) == Cardinality({ t \in Tasks : T[t].active })
totalCoreRequirementsOfActiveTasks(T) ==
    SumOver([t \in Tasks |-> T[t].taskCoreRequirement], { t \in Tasks : T[t].active })

isAssignedToTask(C, coreId) == C[coreId].assignedTaskID # -1

(***************************************************************************)
(* setAffinity: attach the thread to the first core of its task that has   *)
(* no thread.  The result is the core array and the core found (or -1).    *)
(***************************************************************************)
\* Mutant: the loop has no break, so the last core that fits is taken.
setAffinity_LastCore(C, thread_id, app_id) ==
    LET cand == { i \in Cores : C[i].assignedTaskID = app_id
                                /\ C[i].assignedThreadID = -1 }
        coreFound == IF cand = {} THEN -1 ELSE MaxOf(cand)
    IN  [ C |-> IF coreFound = -1 THEN C
                ELSE [C EXCEPT ![coreFound].assignedThreadID = thread_id],
          coreFound |-> coreFound ]

setAffinity(C, thread_id, app_id) ==
    LET cand == { i \in Cores : C[i].assignedTaskID = app_id
                                /\ C[i].assignedThreadID = -1 }
        coreFound == IF cand = {} THEN -1 ELSE MinOf(cand)
    IN  [ C |-> IF coreFound = -1 THEN C
                ELSE [C EXCEPT ![coreFound].assignedThreadID = thread_id],
          coreFound |-> coreFound ]

(***************************************************************************)
(* Mapping policy first_unused: the first taskCoreRequirement preferred    *)
(* cores that are available, in preference order; a shorter list if fewer  *)
(* are available.                                                          *)
(***************************************************************************)
RECURSIVE FirstUnusedFrom(_, _, _, _)
FirstUnusedFrom(i, taskCoreRequirement, availableCores, cores) ==
    IF i > Len(preferredCoresOrder) \/ Len(cores) >= taskCoreRequirement THEN cores
    ELSE FirstUnusedFrom(i + 1, taskCoreRequirement, availableCores,
             IF availableCores[preferredCoresOrder[i]]
             THEN Append(cores, preferredCoresOrder[i]) ELSE cores)

MapFirstUnused(taskCoreRequirement, availableCores) ==
    FirstUnusedFrom(1, taskCoreRequirement, availableCores, << >>)

\* Mutant: a core is offered to the policy although a task holds it.
availableCoresOf_IgnoreAssigned(C, mask) == [i \in Cores |-> mask[i]]

\* Mutant: the core mask is not looked at.
availableCoresOf_IgnoreMask(C, mask) == [i \in Cores |-> ~isAssignedToTask(C, i)]

availableCoresOf(C, mask) == [i \in Cores |-> mask[i] /\ ~isAssignedToTask(C, i)]

\* Mutant: the returned cores are assigned before their number is checked.
executeMappingPolicy_AssignFirst(T, C, mask, taskID) ==
    LET bestCores == MapFirstUnused(T[taskID].taskCoreRequirement,
                                    availableCoresOf(C, mask))
        chosen == { bestCores[i] : i \in 1 .. Len(bestCores) }
    IN  [ C |-> [i \in Cores |-> IF i \in chosen
                                 THEN [C[i] EXCEPT !.assignedTaskID = taskID]
                                 ELSE C[i]],
          ok |-> Len(bestCores) >= T[taskID].taskCoreRequirement ]

\* Mutant: every available core is assigned, not only the returned ones.
executeMappingPolicy_AssignAvailable(T, C, mask, taskID) ==
    LET bestCores == MapFirstUnused(T[taskID].taskCoreRequirement,
                                    availableCoresOf(C, mask))
    IN  IF Len(bestCores) < T[taskID].taskCoreRequirement
        THEN [ C |-> C, ok |-> FALSE ]
        ELSE [ C |-> [i \in Cores |-> IF availableCoresOf(C, mask)[i]
                                      THEN [C[i] EXCEPT !.assignedTaskID = taskID]
                                      ELSE C[i]],
               ok |-> TRUE ]

\* The result is the core array and whether the mapping succeeded.
executeMappingPolicy(T, C, mask, taskID) ==
    LET bestCores == MapFirstUnused(T[taskID].taskCoreRequirement,
                                    availableCoresOf(C, mask))
        chosen == { bestCores[i] : i \in 1 .. Len(bestCores) }
    IN  IF Len(bestCores) < T[taskID].taskCoreRequirement
        THEN [ C |-> C, ok |-> FALSE ]
        ELSE [ C |-> [i \in Cores |-> IF i \in chosen
                                      THEN [C[i] EXCEPT !.assignedTaskID = taskID]
                                      ELSE C[i]],
               ok |-> TRUE ]

(***************************************************************************)
(* schedule.  A scheduler state st is [T, C, A]: tasks, cores and the      *)
(* admission order.  The result is the state left behind and the returned  *)
(* boolean.                                                                *)
(***************************************************************************)
schedule(st, mask, taskID, isInitialCall, time) ==
    IF st.T[taskID].taskArrivalTime > time
    THEN [ st |-> st, ok |-> FALSE ]
    ELSE
      LET T1 == [st.T EXCEPT ![taskID].waitingInQueue = TRUE,
                             ![taskID].waitingToSchedule = FALSE]
          queued == [st EXCEPT !.T = T1]
      IN  IF taskFrontOfQueue(T1) # taskID THEN [ st |-> queued, ok |-> FALSE ]
          ELSE IF numberOfFreeCores(st.C) < T1[taskID].taskCoreRequirement
               THEN [ st |-> queued, ok |-> FALSE ]
          ELSE
            LET m == executeMappingPolicy(T1, st.C, mask, taskID)
            IN  IF ~m.ok THEN [ st |-> [queued EXCEPT !.C = m.C], ok |-> FALSE ]
                ELSE
                  LET C2 == IF isInitialCall THEN m.C
                            ELSE setAffinity(m.C, taskID, taskID).C
                      T2 == [T1 EXCEPT ![taskID].taskStartTime = time,
                                       ![taskID].active = TRUE,
                                       ![taskID].waitingInQueue = FALSE,
                                       ![taskID].waitingToSchedule = FALSE]
                  IN  [ st |-> [ T |-> T2, C |-> C2, A |-> Append(st.A, taskID) ],
                        ok |-> TRUE ]

\* Mutant: every arrived task is put into the queue, whatever its phase.
fetchTasksIntoQueue_AnyPhase(T, time) ==
    [t \in Tasks |->
        IF T[t].taskArrivalTime <= time
        THEN [T[t] EXCEPT !.waitingInQueue = TRUE, !.waitingToSchedule = FALSE]
        ELSE T[t]]

fetchTasksIntoQueue(T, time) ==
    [t \in Tasks |->
        IF T[t].waitingToSchedule /\ T[t].taskArrivalTime <= time
        THEN [T[t] EXCEPT !.waitingInQueue = TRUE, !.waitingToSchedule = FALSE]
        ELSE T[t]]

(***************************************************************************)
(* threadExit.                                                             *)
(***************************************************************************)
\* Mutant: the core the exiting thread was on is also taken from its task.
detachThread_FreeCore(C, thread_id) ==
    [i \in Cores |-> IF C[i].assignedThreadID = thread_id THEN openCore ELSE C[i]]

\* Lines 519-530: detach the exiting thread from every core it is on.
detachThread(C, thread_id) ==
    [i \in Cores |-> IF C[i].assignedThreadID = thread_id
                     THEN [C[i] EXCEPT !.assignedThreadID = -1] ELSE C[i]]

\* Mutant: the release loop stops after the first core of the task.
releaseTaskCores_FirstOnly(C, app_id) ==
    LET mine == { i \in Cores : C[i].assignedTaskID = app_id }
    IN  [i \in Cores |-> IF mine # {} /\ i = MinOf(mine)
                         THEN [C[i] EXCEPT !.assignedTaskID = -1] ELSE C[i]]

\* Mutant: a core of the finished task that still carries a thread is kept.
releaseTaskCores_ThreadlessOnly(C, app_id) ==
    [i \in Cores |-> IF C[i].assignedTaskID = app_id /\ C[i].assignedThreadID = -1
                     THEN [C[i] EXCEPT !.assignedTaskID = -1] ELSE C[i]]

\* Lines 535-540: release every core of the finished task.
releaseTaskCores(C, app_id) ==
    [i \in Cores |-> IF C[i].assignedTaskID = app_id
                     THEN [C[i] EXCEPT !.assignedTaskID = -1] ELSE C[i]]

\* Mutant: the finished task keeps its active flag.
completeTask_KeepActive(T, app_id, time) ==
    [T EXCEPT ![app_id].taskDepartureTime = time,
              ![app_id].completed = TRUE]

\* Lines 542-544.
completeTask(T, app_id, time) ==
    [T EXCEPT ![app_id].taskDepartureTime = time,
              ![app_id].completed = TRUE,
              ![app_id].active = FALSE]

\* Lines 519-547: the state before the empty-system branch is looked at.
afterRelease(st, thread_id, app_id, time) ==
    LET C1 == detachThread(st.C, thread_id)
    IN  IF thread_id < NumTasks
        THEN [st EXCEPT !.C = releaseTaskCores(C1, app_id),
                        !.T = completeTask(st.T, app_id, time)]
        ELSE [st EXCEPT !.C = C1]

\* Lines 560-571: the scan for the next arrival; 0 doubles as "none yet".
RECURSIVE nextArrivalScan(_, _, _)
nextArrivalScan(T, taskIterator, nextArrivalTime) ==
    IF taskIterator >= NumTasks THEN nextArrivalTime
    ELSE nextArrivalScan(T, taskIterator + 1,
            IF T[taskIterator].waitingToSchedule
            THEN IF nextArrivalTime = 0 THEN T[taskIterator].taskArrivalTime
                 ELSE IF nextArrivalTime > T[taskIterator].taskArrivalTime
                      THEN T[taskIterator].taskArrivalTime
                      ELSE nextArrivalTime
            ELSE nextArrivalTime)

nextArrivalTimeOf(T) == nextArrivalScan(T, 0, 0)

\* Lines 578-586: the jump, in UInt64 arithmetic.
\* Mutant: the operands of the subtraction are swapped.
timeJumpOf_Swapped(nextArrivalTime, time) == (time - nextArrivalTime) % UInt64Mod

timeJumpOf(nextArrivalTime, time) == (nextArrivalTime - time) % UInt64Mod

\* Mutant: the jump is subtracted from the arrival time of every task.
readjustArrivalTimes_EveryTask(T, timeJump) ==
    [t \in Tasks |->
        [T[t] EXCEPT !.taskArrivalTime =
                         (T[t].taskArrivalTime - timeJump) % UInt64Mod]]

readjustArrivalTimes(T, timeJump) ==
    [t \in Tasks |->
        IF T[t].waitingToSchedule
        THEN [T[t] EXCEPT !.taskArrivalTime =
                              (T[t].taskArrivalTime - timeJump) % UInt64Mod]
        ELSE T[t]]

\* Lines 549-595 on the state s that lines 519-547 left.
emptySystemBranch(s, mask, time) ==
    IF numberOfFreeCores(s.C) = NumCores /\ numberOfTasksWaitingToSchedule(s.T) # 0
    THEN IF numberOfTasksInQueue(s.T) # 0
         THEN [ st |-> schedule(s, mask, taskFrontOfQueue(s.T), FALSE, time).st,
                status |-> "running" ]
         ELSE LET nextArrivalTime == nextArrivalTimeOf(s.T)
              IN  IF nextArrivalTime = 0
                  THEN [ st |-> s, status |-> "exit: nextArrivalTime == 0" ]
                  ELSE
                    LET T1 == readjustArrivalTimes(s.T, timeJumpOf(nextArrivalTime, time))
                        T2 == fetchTasksIntoQueue(T1, time)
                        s2 == [s EXCEPT !.T = T2]
                    IN  IF taskFrontOfQueue(T2) = -1
                        \* schedule(-1, ...) indexes openTasks out of bounds
                        THEN [ st |-> s2, status |-> "undefined: openTasks[-1]" ]
                        ELSE [ st |-> schedule(s2, mask, taskFrontOfQueue(T2),
                                               FALSE, time).st,
                               status |-> "running" ]
    ELSE [ st |-> s, status |-> "running" ]

threadExit(st, mask, thread_id, app_id, time) ==
    emptySystemBranch(afterRelease(st, thread_id, app_id, time), mask, time)

(***************************************************************************)
(* periodic.                                                               *)
(***************************************************************************)
\* Mutant: an if instead of the while: one schedule call per epoch.
drainQueue_Once(st, mask, time) ==
    IF numberOfTasksInQueue(st.T) = 0 THEN st
    ELSE schedule(st, mask, taskFrontOfQueue(st.T), FALSE, time).st

\* The number of schedule calls the loop of lines 789-791 makes from st,
\* counted up to maxCalls.
RECURSIVE drainCalls(_, _, _, _)
drainCalls(st, mask, time, maxCalls) ==
    IF numberOfTasksInQueue(st.T) = 0 \/ maxCalls = 0 THEN 0
    ELSE LET r == schedule(st, mask, taskFrontOfQueue(st.T), FALSE, time)
         IN  IF ~r.ok THEN 1 ELSE 1 + drainCalls(r.st, mask, time, maxCalls - 1)

\* Lines 789-791.
RECURSIVE drainQueue(_, _, _)
drainQueue(st, mask, time) ==
    IF numberOfTasksInQueue(st.T) = 0 THEN st
    ELSE LET r == schedule(st, mask, taskFrontOfQueue(st.T), FALSE, time)
         IN  IF ~r.ok THEN r.st ELSE drainQueue(r.st, mask, time)

\* Lines 765-779: the reason the error check exits, or "running".
errorCheck(st, time) ==
    IF time % ErrorCheckInterval # 0 THEN "running"
    ELSE IF NumCores - totalCoreRequirementsOfActiveTasks(st.T) # numberOfFreeCores(st.C)
         THEN "exit: free cores + active requirements != cores"
    ELSE IF numberOfActiveTasks(st.T) + numberOfTasksCompleted(st.T)
            + numberOfTasksInQueue(st.T) + numberOfTasksWaitingToSchedule(st.T)
            # NumTasks
         THEN "exit: task state does not match"
    ELSE "running"

periodic(st, mask, time) ==
    LET check == errorCheck(st, time)
    IN  IF check # "running" THEN [ st |-> st, status |-> check ]
        ELSE IF time % mappingEpoch = 0
             THEN [ st |-> drainQueue([st EXCEPT !.T = fetchTasksIntoQueue(st.T, time)],
                                      mask, time),
                    status |-> "running" ]
             ELSE [ st |-> st, status |-> "running" ]

(***************************************************************************)
(* threadCreate: the state left, the returned core and the exit reason.    *)
(***************************************************************************)
\* Mutant: a failing initial schedule is fatal for every primary thread.
threadCreate_AnyPrimaryFatal(st, mask, thread_id, app_id, time) ==
    LET r == IF thread_id < NumTasks
             THEN schedule(st, mask, thread_id, TRUE, time)
             ELSE [ st |-> st, ok |-> TRUE ]
    IN  IF thread_id < NumTasks /\ ~r.ok
        THEN [ st |-> r.st, ret |-> -1, status |-> "exit: task 0 must be mapped" ]
        ELSE LET a == setAffinity(r.st.C, thread_id, app_id)
             IN  [ st |-> [r.st EXCEPT !.C = a.C],
                   ret |-> a.coreFound,
                   status |-> IF a.coreFound = -1 /\ thread_id >= NumTasks
                              THEN "exit: non-initial thread failed to get a core"
                              ELSE "running" ]

threadCreate(st, mask, thread_id, app_id, time) ==
    LET r == IF thread_id < NumTasks
             THEN schedule(st, mask, thread_id, TRUE, time)
             ELSE [ st |-> st, ok |-> TRUE ]
    IN  IF thread_id = 0 /\ ~r.ok
        THEN [ st |-> r.st, ret |-> -1, status |-> "exit: task 0 must be mapped" ]
        ELSE LET a == setAffinity(r.st.C, thread_id, app_id)
             IN  [ st |-> [r.st EXCEPT !.C = a.C],
                   ret |-> a.coreFound,
                   status |-> IF a.coreFound = -1 /\ thread_id >= NumTasks
                              THEN "exit: non-initial thread failed to get a core"
                              ELSE "running" ]

(***************************************************************************)
(* The state machine.                                                      *)
(***************************************************************************)
State == [ T |-> openTasks, C |-> systemCores, A |-> admitOrder ]

\* The threads that are on a core, and the apps that have one.
AttachedThreads == { systemCores[c].assignedThreadID : c \in Cores } \ {-1}
SomeThreadRunning == AttachedThreads # {}

Init ==
    /\ \E names \in [Tasks -> { d \in Descriptors : coreRequirementTranslation(d) >= 0 }],
          arrivals \in [Tasks -> ArrivalTimes] :
          openTasks = [t \in Tasks |->
              openTask(names[t], coreRequirementTranslation(names[t]), arrivals[t])]
    /\ systemCores = [c \in Cores |-> openCore]
    /\ m_core_mask \in CoreMasks
    /\ now = 0
    /\ created = 0
    /\ workerApp = << >>
    /\ status = "running"
    /\ lastCall = [ op |-> "construct", thread |-> -1, ret |-> -1 ]
    /\ admitOrder = << >>
    /\ ctor = [ pc |-> "done" ]

Commit(st, st_status, call) ==
    /\ openTasks' = st.T
    /\ systemCores' = st.C
    /\ admitOrder' = st.A
    /\ status' = st_status
    /\ lastCall' = call

\* The first threads of all tasks are created together, in order, when the
\* system starts (line 444).
ThreadCreatePrimary ==
    /\ status = "running"
    /\ created < NumTasks
    /\ LET r == threadCreate(State, m_core_mask, created, created, now)
       IN  Commit(r.st, r.status,
                  [ op |-> "threadCreate", thread |-> created, ret |-> r.ret ])
    /\ created' = created + 1
    /\ UNCHANGED << m_core_mask, now, workerApp, ctor >>

\* A running thread creates a thread of its own task.
ThreadCreateWorker ==
    /\ status = "running"
    /\ created = NumTasks
    /\ Len(workerApp) < MaxWorkers
    /\ \E creator \in AttachedThreads :
         LET app_id == AppOf(workerApp, creator)
             thread_id == NumTasks + Len(workerApp)
             r == threadCreate(State, m_core_mask, thread_id, app_id, now)
         IN  /\ Commit(r.st, r.status,
                       [ op |-> "threadCreate", thread |-> thread_id, ret |-> r.ret ])
             /\ workerApp' = Append(workerApp, app_id)
    /\ UNCHANGED << m_core_mask, now, created, ctor >>

\* A thread that runs on a core exits; a task's primary thread has run for
\* some time when it does.
ThreadExit ==
    /\ status = "running"
    /\ created = NumTasks
    /\ \E thread_id \in AttachedThreads :
         /\ thread_id < NumTasks => now > openTasks[thread_id].taskStartTime
         /\ LET r == threadExit(State, m_core_mask, thread_id,
                                AppOf(workerApp, thread_id), now)
            IN  Commit(r.st, r.status,
                       [ op |-> "threadExit", thread |-> thread_id, ret |-> -1 ])
    /\ UNCHANGED << m_core_mask, now, created, workerApp, ctor >>

\* The host advances simulated time, and calls periodic, only while some
\* thread runs (line 550).  A call at a time that is neither an error-check
\* time (line 765) nor a mapping epoch (line 781) leaves the scheduler's
\* state as it is; such calls are the stuttering steps of the model.
Periodic ==
    /\ status = "running"
    /\ created = NumTasks
    /\ SomeThreadRunning
    /\ now % ErrorCheckInterval = 0 \/ now % mappingEpoch = 0
    /\ LET r == periodic(State, m_core_mask, now)
       IN  Commit(r.st, r.status, [ op |-> "periodic", thread |-> -1, ret |-> -1 ])
    /\ UNCHANGED << m_core_mask, now, created, workerApp, ctor >>

Tick ==
    /\ status = "running"
    /\ created = NumTasks
    /\ SomeThreadRunning
    /\ now < MaxTime
    /\ now' = now + 1
    /\ lastCall' = [ op |-> "tick", thread |-> -1, ret |-> -1 ]
    /\ UNCHANGED << openTasks, systemCores, m_core_mask, created, workerApp,
                    status, admitOrder, ctor >>

Next ==
    \/ ThreadCreatePrimary
    \/ ThreadCreateWorker
    \/ ThreadExit
    \/ Periodic
    \/ Tick

Spec == Init /\ [][Next]_vars

TypeOK ==
    /\ now \in Times
    /\ created \in 0 .. NumTasks
    /\ \A t \in Tasks : openTasks[t].taskCoreRequirement >= 0
    /\ \A c \in Cores : systemCores[c].assignedTaskID \in Tasks \cup {-1}

(***************************************************************************)
(* Properties.                                                             *)
(***************************************************************************)
WaitingToSchedule(t) == openTasks[t].waitingToSchedule
Queued(t) == openTasks[t].waitingInQueue
Active(t) == openTasks[t].active
Completed(t) == openTasks[t].completed
CoresOf(t) == { c \in Cores : systemCores[c].assignedTaskID = t }

\* C1: the number of free cores plus the core requirements of the active
\* tasks is the number of cores, in every state a hook leaves, and periodic
\* never exits on its capacity check.
C1_Capacity ==
    /\ numberOfFreeCores(systemCores)
         + totalCoreRequirementsOfActiveTasks(openTasks) = NumCores
    /\ status # "exit: free cores + active requirements != cores"

\* C1 witness: threadExit has returned after a task finished and released
\* its cores, while another task is active on cores.
C1_Witness ==
    /\ \E t \in Tasks : Completed(t) /\ openTasks[t].taskCoreRequirement > 0
    /\ \E t \in Tasks : Active(t) /\ CoresOf(t) # {}
    /\ lastCall.op = "threadExit"

\* C2: every task has exactly one of the four phase flags set, so the four
\* counts add up to the number of tasks and periodic never exits with
\* "Task State Does Not Match".
C2_PhasePartition ==
    /\ \A t \in Tasks :
         Cardinality({ f \in {"waitingToSchedule", "waitingInQueue", "active", "completed"} :
                         openTasks[t][f] }) = 1
    /\ numberOfActiveTasks(openTasks) + numberOfTasksCompleted(openTasks)
         + numberOfTasksInQueue(openTasks)
         + numberOfTasksWaitingToSchedule(openTasks) = NumTasks
    /\ status # "exit: task state does not match"

\* C2 witness: tasks in three different phases after a primary thread exited.
C2_Witness ==
    /\ \E t \in Tasks : Completed(t)
    /\ \E t \in Tasks : Active(t)
    /\ \E t \in Tasks : Queued(t)

\* C3: a task's phase only moves forward: an active or completed task is
\* never queued or waiting again, a completed task is never active again and
\* stays completed, a queued task is never waiting to be scheduled again.
C3_ForwardOnly ==
    [][ \A t \in Tasks :
          /\ (Active(t) \/ Completed(t))
               => ~openTasks'[t].waitingInQueue /\ ~openTasks'[t].waitingToSchedule
          /\ Completed(t) => openTasks'[t].completed /\ ~openTasks'[t].active
          /\ Queued(t) => ~openTasks'[t].waitingToSchedule ]_vars

\* C3 witness: periodic has fetched and drained the queue at an epoch while
\* one arrived task is completed and another one is active.
C3_Witness ==
    /\ lastCall.op = "periodic" /\ now % mappingEpoch = 0 /\ now > 0
    /\ \E t \in Tasks : Completed(t) /\ openTasks[t].taskArrivalTime <= now
    /\ \E t \in Tasks : Active(t) /\ openTasks[t].taskArrivalTime <= now

\* C4 as claimed: of two tasks that both become active, the one with the
\* smaller id becomes active first, i.e. tasks are admitted in id order.
\* (Stated for tasks that need at least one core, so that a violation does
\* not rest on a zero entry of the profile table.)
C4_AdmittedInIdOrder ==
    \A p, q \in 1 .. Len(admitOrder) :
        (/\ p < q
         /\ openTasks[admitOrder[p]].taskCoreRequirement >= 1
         /\ openTasks[admitOrder[q]].taskCoreRequirement >= 1)
          => admitOrder[p] < admitOrder[q]

\* C4 as amended: a task j is never admitted while a task with a smaller
\* id is waiting in the queue: after a step that makes j active, no task
\* i < j is queued.
C4_FIFOAmongQueued ==
    [][ \A j \in Tasks :
          (~Active(j) /\ openTasks'[j].active)
            => \A i \in Tasks : i < j => ~openTasks'[i].waitingInQueue ]_vars

\* C4 witness: two tasks were queued together behind a running task and
\* both have been admitted since, the smaller id first.
C4_Witness ==
    /\ Len(admitOrder) = 3
    /\ admitOrder[2] < admitOrder[3]
    /\ openTasks[admitOrder[2]].taskStartTime > 0
    /\ openTasks[admitOrder[3]].taskArrivalTime
         <= openTasks[admitOrder[2]].taskStartTime

\* C5: a core that is assigned to a task gets another owner only in the
\* threadExit call of that task's primary thread, and no thread id is the
\* assignedThreadID of two cores.
C5_ThreadOnOneCore ==
    \A c, d \in Cores :
        (c # d /\ systemCores[c].assignedThreadID # -1)
          => systemCores[c].assignedThreadID # systemCores[d].assignedThreadID

C5_CoreKeptUntilRelease ==
    \A c \in Cores :
        (/\ systemCores[c].assignedTaskID # -1
         /\ systemCores'[c].assignedTaskID # systemCores[c].assignedTaskID)
          => /\ lastCall'.op = "threadExit"
             /\ lastCall'.thread = systemCores[c].assignedTaskID

C5_NoOverSubscription ==
    [] C5_ThreadOnOneCore /\ [][C5_CoreKeptUntilRelease]_vars

\* C5 witness: a task that held every core has finished, and a core it
\* held now belongs to another task and carries that task's thread.
C5_Witness ==
    /\ \E t \in Tasks : Completed(t) /\ openTasks[t].taskCoreRequirement = NumCores
    /\ \E u \in Tasks, c \in Cores :
         /\ Active(u)
         /\ systemCores[c].assignedTaskID = u
         /\ systemCores[c].assignedThreadID = u

\* C6 as claimed: every core with a thread attached has a task assigned,
\* and it is the task the thread belongs to.
C6_ThreadTaskConsistent ==
    \A c \in Cores :
        systemCores[c].assignedThreadID # -1
          => /\ systemCores[c].assignedTaskID # -1
             /\ systemCores[c].assignedTaskID
                  = AppOf(workerApp, systemCores[c].assignedThreadID)

\* C7 as claimed: every active task has at least one core assigned to it.
C7_ActiveTaskOwnsCore ==
    \A t \in Tasks : Active(t) => CoresOf(t) # {}

\* The step is the threadExit call of thread_id, which was on a core.
IsThreadExitOf(thread_id) ==
    /\ lastCall'.op = "threadExit"
    /\ lastCall'.thread = thread_id
    /\ thread_id \in AttachedThreads

\* The state threadExit(thread_id) has after releasing cores (lines 519-547).
Released(thread_id) ==
    afterRelease(State, thread_id, AppOf(workerApp, thread_id), now)

QueuedIn(T) == { t \in Tasks : T[t].waitingInQueue }
WaitingIn(T) == { t \in Tasks : T[t].waitingToSchedule }
NumAvailable(C) ==
    Cardinality({ c \in Cores : availableCoresOf(C, m_core_mask)[c] })

\* C8 as claimed, in the case the claim names: when the primary thread of
\* an active task exits, the release leaves every core free, and some queued
\* task fits in the cores that are allowed, then the head of the queue is
\* active when threadExit returns - whether or not a task is waiting to be
\* scheduled.
C8_AdmissionOnExit ==
    [][ \A t \in Tasks :
          LET s == Released(t)
          IN  (/\ IsThreadExitOf(t)
               /\ Active(t)
               /\ numberOfFreeCores(s.C) = NumCores
               /\ \E q \in QueuedIn(s.T) :
                    s.T[q].taskCoreRequirement <= NumAvailable(s.C))
                => openTasks'[taskFrontOfQueue(s.T)].active ]_vars

\* The empty-system time jump fires in the threadExit call of thread_id:
\* the release leaves every core free, no task queued and a task waiting.
TimeJumpBy(thread_id) ==
    LET s == Released(thread_id)
    IN  /\ IsThreadExitOf(thread_id)
        /\ numberOfFreeCores(s.C) = NumCores
        /\ QueuedIn(s.T) = {}
        /\ WaitingIn(s.T) # {}

AllThreads == 0 .. (NumTasks + MaxWorkers - 1)

\* The waiting tasks with the minimal arrival time.
EarliestWaiting(T) ==
    { w \in WaitingIn(T) :
        \A v \in WaitingIn(T) : T[w].taskArrivalTime <= T[v].taskArrivalTime }

\* The cores the mask allows: what an empty system can map.
NumAllowed == Cardinality({ c \in Cores : m_core_mask[c] })

\* C9: when threadExit at time now leaves every core free, no task queued
\* and some task waiting, then on return the waiting tasks with the minimal
\* arrival time have arrival time now and are no longer waiting, and the
\* lowest-indexed of them is active with start time now if the allowed
\* cores cover its core requirement.
C9_TimeJump ==
    [][ \A x \in AllThreads :
          TimeJumpBy(x) =>
            LET s == Released(x)
                E == EarliestWaiting(s.T)
                head == MinOf(E)
            IN  /\ status' = "running"
                /\ \A w \in E :
                     /\ openTasks'[w].taskArrivalTime = now
                     /\ ~openTasks'[w].waitingToSchedule
                /\ s.T[head].taskCoreRequirement <= NumAllowed
                     => /\ openTasks'[head].active
                        /\ openTasks'[head].taskStartTime = now ]_vars

\* C9 witness: threadExit has just admitted a task whose arrival time was
\* readjusted to the time of the exit (no configured arrival time has this
\* value).
C9_Witness ==
    /\ lastCall.op = "threadExit"
    /\ now \notin ArrivalTimes
    /\ \E t \in Tasks :
         /\ Active(t)
         /\ openTasks[t].taskArrivalTime = now
         /\ openTasks[t].taskStartTime = now

\* C10 as claimed: across a time jump, arrival(a) <= arrival(b) holds after
\* the jump exactly if it held before, for any two tasks a and b; and for
\* two tasks that are both waiting to be scheduled the difference of their
\* arrival times is unchanged.
C10_OrderPreserved ==
    [][ \A x \in AllThreads :
          TimeJumpBy(x) =>
            LET s == Released(x)
            IN  /\ \A a, b \in Tasks :
                     (openTasks[a].taskArrivalTime <= openTasks[b].taskArrivalTime)
                       <=> (openTasks'[a].taskArrivalTime
                              <= openTasks'[b].taskArrivalTime)
                /\ \A a, b \in WaitingIn(s.T) :
                     openTasks'[b].taskArrivalTime - openTasks'[a].taskArrivalTime
                       = openTasks[b].taskArrivalTime - openTasks[a].taskArrivalTime
             ]_vars

\* C11 as claimed: only the time jump of threadExit changes an arrival time
\* after construction, it changes only tasks that are waiting to be
\* scheduled, and it never increases an arrival time - also when the
\* earliest waiting task's arrival time is already below now.
C11_ArrivalsOnlyDown ==
    [][ \A t \in Tasks :
          /\ openTasks'[t].taskArrivalTime <= openTasks[t].taskArrivalTime
          /\ openTasks'[t].taskArrivalTime # openTasks[t].taskArrivalTime
               => \E x \in AllThreads :
                    TimeJumpBy(x) /\ t \in WaitingIn(Released(x).T) ]_vars

\* Every task needs at least one core and no more cores than the mask
\* allows, so an empty system can map it.
EveryTaskMappable ==
    \A t \in Tasks :
        /\ openTasks[t].taskCoreRequirement >= 1
        /\ openTasks[t].taskCoreRequirement <= NumAllowed

\* No task is active and every core is free, yet a task is still waiting to
\* be scheduled or queued.
IdleWithPendingTasks ==
    /\ \A t \in Tasks : ~Active(t)
    /\ numberOfFreeCores(systemCores) = NumCores
    /\ \E t \in Tasks : WaitingToSchedule(t) \/ Queued(t)

\* C12 as claimed: if every task can be mapped onto an empty system, then
\* no state in which a threadExit call has returned has all cores free, no
\* task active and a task still waiting to be scheduled or queued.
C12_NoIdleDeadlock ==
    (/\ EveryTaskMappable
     /\ status = "running"
     /\ lastCall.op = "threadExit")
      => ~IdleWithPendingTasks

\* The host keeps going as long as it can take a step: startup creates
\* every primary thread, a thread that runs on a core exits, and while some
\* thread runs the clock advances and periodic is called.
LiveSpec == Spec /\ WF_vars(Next)

AllCompleted == \A t \in Tasks : Completed(t)

\* C13 as claimed, within the time the model covers: if every task can be
\* mapped onto an empty system, then all tasks eventually complete - unless
\* the process exits or the clock reaches the end of the modelled time first.
C13_EventualAdmission ==
    EveryTaskMappable ~> (AllCompleted \/ status # "running" \/ now = MaxTime)

\* No core that the mask forbids has a task.
C14_MaskedCoresFree ==
    \A c \in Cores : ~m_core_mask[c] => systemCores[c].assignedTaskID = -1

\* A core gets a task only if the mask allows it and the core was free when
\* it was offered to the policy (free before the step, or released by the
\* exiting primary thread in this step); a task that becomes active holds
\* exactly the cores the policy returned for it.
C14_OnlyOfferedCoresAssigned ==
    /\ \A c \in Cores :
         (/\ systemCores'[c].assignedTaskID # -1
          /\ systemCores'[c].assignedTaskID # systemCores[c].assignedTaskID)
           => /\ m_core_mask[c]
              /\ \/ systemCores[c].assignedTaskID = -1
                 \/ /\ lastCall'.op = "threadExit"
                    /\ lastCall'.thread = systemCores[c].assignedTaskID
    /\ \A t \in Tasks :
         (~Active(t) /\ openTasks'[t].active)
           => Cardinality({ c \in Cores : systemCores'[c].assignedTaskID = t })
                = openTasks[t].taskCoreRequirement

\* C14: the core mask is respected: no masked-out core ever has a task, and
\* only cores that were offered as available (mask-allowed and unassigned)
\* and returned by the policy are assigned.
C14_CoreMaskRespected ==
    [] C14_MaskedCoresFree /\ [][C14_OnlyOfferedCoresAssigned]_vars

\* C14 witness: periodic has tried to map a queued task that would fit into
\* the free cores, but the only free core is masked out, so the task is
\* still queued while another task runs on an allowed core.
C14_Witness ==
    /\ lastCall.op = "periodic" /\ now % mappingEpoch = 0
    /\ \E c \in Cores : ~m_core_mask[c]
    /\ \E t \in Tasks : Active(t) /\ CoresOf(t) # {}
    /\ \E t \in Tasks :
         /\ Queued(t)
         /\ t = taskFrontOfQueue(openTasks)
         /\ openTasks[t].taskCoreRequirement >= 1
         /\ openTasks[t].taskCoreRequirement <= numberOfFreeCores(systemCores)

(***************************************************************************)
(* The constructor's grid computation (lines 45-53), step by step, for     *)
(* every core count from 1 to MaxGridCores.                                *)
(***************************************************************************)
\* (int)sqrt(n)
IntSqrt(n) == MaxOf({ r \in 0 .. n : r * r <= n })

\* Nothing but the constructor's locals exists while the constructor runs.
NotConstructed ==
    /\ openTasks = << >>
    /\ systemCores = << >>
    /\ m_core_mask = << >>
    /\ now = 0
    /\ created = 0
    /\ workerApp = << >>
    /\ lastCall = [ op |-> "construct", thread |-> -1, ret |-> -1 ]
    /\ admitOrder = << >>

ctorUnchanged ==
    UNCHANGED << openTasks, systemCores, m_core_mask, now, created, workerApp,
                 lastCall, admitOrder >>

\* Line 45.
GridInit ==
    /\ NotConstructed
    /\ status = "running"
    /\ \E numberOfCores \in 1 .. MaxGridCores :
         ctor = [ pc |-> "rows", numberOfCores |-> numberOfCores,
                  coreRows |-> IntSqrt(numberOfCores), coreColumns |-> 0 ]

\* Lines 46-48: one iteration of the while loop.
GridLoop ==
    /\ ctor.pc = "rows"
    /\ ctor.numberOfCores % ctor.coreRows # 0
    /\ ctor' = [ctor EXCEPT !.coreRows = ctor.coreRows - 1]
    /\ UNCHANGED status
    /\ ctorUnchanged

\* Line 49.
GridColumns ==
    /\ ctor.pc = "rows"
    /\ ctor.numberOfCores % ctor.coreRows = 0
    /\ ctor' = [ctor EXCEPT !.coreColumns = ctor.numberOfCores \div ctor.coreRows,
                            !.pc = "check"]
    /\ UNCHANGED status
    /\ ctorUnchanged

\* Lines 50-53.
GridCheck ==
    /\ ctor.pc = "check"
    /\ IF ctor.coreRows * ctor.coreColumns # ctor.numberOfCores
       THEN /\ status' = "exit: invalid system size"
            /\ ctor' = [ctor EXCEPT !.pc = "exit"]
       ELSE /\ status' = status
            /\ ctor' = [ctor EXCEPT !.pc = "grid done"]
    /\ ctorUnchanged

GridNext == GridLoop \/ GridColumns \/ GridCheck

GridSpec == GridInit /\ [][GridNext]_vars

IsPrime(n) == n >= 2 /\ \A d \in 2 .. (n - 1) : n % d # 0

\* The grid computation has finished, one way or the other.
GridFinished == ctor.pc \in {"grid done", "exit"}

\* C15 as claimed: for every core count M >= 1 the constructor leaves
\* coreRows = the largest divisor of M not above floor(sqrt(M)) and
\* coreColumns = M / coreRows, and startup fails whenever M is prime.
C15_GridValidation ==
    GridFinished =>
        LET M == ctor.numberOfCores
        IN  /\ ctor.coreRows = MaxOf({ d \in 1 .. M : M % d = 0 /\ d * d <= M })
            /\ ctor.coreColumns = M \div ctor.coreRows
            /\ IsPrime(M) => status = "exit: invalid system size"

(***************************************************************************)
(* The profile lookup of the constructor (line 65 calling lines 663-759),  *)
(* for every descriptor suite-benchmark-input-parallelism of a bounded     *)
(* set.                                                                    *)
(***************************************************************************)
ParsecBenchmarks ==
    { "blackscholes", "bodytrack", "canneal", "dedup", "ferret", "fluidanimate",
      "streamcluster", "swaptions", "x264" }
Splash2Benchmarks ==
    { "barnes", "cholesky", "fft", "fmm", "lu.cont", "lu.ncont", "ocean.cont",
      "ocean.ncont", "radiosity", "radix", "raytrace", "water.nsq", "water.sp" }

AllDescriptors ==
    [ suite : {"parsec", "splash2", "cpu2006"},
      benchmark : ParsecBenchmarks \cup Splash2Benchmarks \cup {"mcf"},
      parallelism : 0 .. MaxParallelism ]

TranslateInit ==
    /\ NotConstructed
    /\ status = "running"
    /\ \E d \in AllDescriptors : ctor = [ pc |-> "translate", taskName |-> d ]

\* Line 65: openTask(taskIterator, taskName, coreRequirementTranslation(taskName)).
Translate ==
    /\ ctor.pc = "translate"
    /\ LET requirement == coreRequirementTranslation(ctor.taskName)
       IN  IF requirement = -1
           THEN /\ status' = "exit: can't find core requirement"
                /\ ctor' = [ pc |-> "exit", taskName |-> ctor.taskName ]
           ELSE /\ status' = status
                /\ ctor' = [ pc |-> "task created", taskName |-> ctor.taskName,
                             taskCoreRequirement |-> requirement ]
    /\ ctorUnchanged

TranslateSpec == TranslateInit /\ [][Translate]_vars

\* The profile table of the descriptor has a 0 at index parallelism - 1.
ForbiddenParallelism(d) ==
    LET requirements == requirementsTable(d.suite, d.benchmark)
    IN  /\ d.suite \in {"parsec", "splash2"}
        /\ d.parallelism \in 1 .. Len(requirements)
        /\ requirements[d.parallelism] = 0

\* C16 as claimed: for a descriptor whose profile table has a 0 at index
\* parallelism - 1 the lookup exits instead of returning a value, so every
\* task that is created has a core requirement of at least 1.
C16_ForbiddenParallelismFails ==
    /\ (ctor.pc # "translate" /\ ForbiddenParallelism(ctor.taskName))
         => status = "exit: can't find core requirement"
    /\ ctor.pc = "task created" => ctor.taskCoreRequirement >= 1

(***************************************************************************)
(* The arrival times the constructor sets (lines 69-109), one loop         *)
(* iteration per step, for each distribution.                              *)
(***************************************************************************)
\* Mutant: the running time advances for every task.
uniformTime_EveryTask(time, taskIterator, arrivalRate, arrivalInterval) ==
    (time + arrivalInterval) % UInt64Mod

\* Line 73 (and line 100 with a drawn interval): the running UInt64 time
\* after the conditional advance.
uniformTime(time, taskIterator, arrivalRate, arrivalInterval) ==
    IF taskIterator % arrivalRate = 0 /\ taskIterator # 0
    THEN (time + arrivalInterval) % UInt64Mod
    ELSE time

Distributions == {"uniform", "explicit", "poisson", "normal"}

ArrivalInit ==
    /\ openTasks = [t \in Tasks |->
           openTask([suite |-> "splash2", benchmark |-> "fft", parallelism |-> 1], 1, 0)]
    /\ systemCores = [c \in Cores |-> openCore]
    /\ m_core_mask = [c \in Cores |-> TRUE]
    /\ now = 0
    /\ created = 0
    /\ workerApp = << >>
    /\ status = "running"
    /\ lastCall = [ op |-> "construct", thread |-> -1, ret |-> -1 ]
    /\ admitOrder = << >>
    /\ \E distribution \in Distributions, arrivalRate \in 1 .. MaxRate,
          arrivalInterval \in 0 .. MaxInterval,
          explicitArrivalTimes \in [Tasks -> ArrivalTimes] :
          ctor = [ pc |-> "arrivals", distribution |-> distribution,
                   arrivalRate |-> arrivalRate, arrivalInterval |-> arrivalInterval,
                   explicitArrivalTimes |-> explicitArrivalTimes,
                   taskIterator |-> 0, time |-> 0 ]

arrivalUnchanged ==
    UNCHANGED << systemCores, m_core_mask, now, created, workerApp, lastCall,
                 admitOrder >>

\* Sets the arrival time of task ctor.taskIterator and moves on.
SetArrival(time) ==
    /\ openTasks' = [openTasks EXCEPT ![ctor.taskIterator].taskArrivalTime = time]
    /\ ctor' = [ctor EXCEPT !.time = time,
                            !.taskIterator = ctor.taskIterator + 1,
                            !.pc = IF ctor.taskIterator + 1 < NumTasks
                                   THEN "arrivals" ELSE "arrivals done"]
    /\ UNCHANGED status
    /\ arrivalUnchanged

\* Lines 70-76.
ArrivalUniform ==
    /\ ctor.pc = "arrivals" /\ ctor.distribution = "uniform"
    /\ SetArrival(uniformTime(ctor.time, ctor.taskIterator, ctor.arrivalRate,
                              ctor.arrivalInterval))

\* Lines 77-82.
ArrivalExplicit ==
    /\ ctor.pc = "arrivals" /\ ctor.distribution = "explicit"
    /\ SetArrival(ctor.explicitArrivalTimes[ctor.taskIterator])

\* Lines 83-105: the advance is (UInt64) of a draw of the exponential
\* distribution, any value from 0 on.
ArrivalPoisson ==
    /\ ctor.pc = "arrivals" /\ ctor.distribution = "poisson"
    /\ \E draw \in 0 .. MaxDraw :
         SetArrival(uniformTime(ctor.time, ctor.taskIterator, ctor.arrivalRate, draw))

\* Lines 106-109.
ArrivalUnknown ==
    /\ ctor.pc = "arrivals"
    /\ ctor.distribution \notin {"uniform", "explicit", "poisson"}
    /\ status' = "exit: unknown workload arrival distribution"
    /\ ctor' = [ctor EXCEPT !.pc = "exit"]
    /\ UNCHANGED openTasks
    /\ arrivalUnchanged

ArrivalNext == ArrivalUniform \/ ArrivalExplicit \/ ArrivalPoisson \/ ArrivalUnknown

ArrivalSpec == ArrivalInit /\ [][ArrivalNext]_vars

ArrivalsNonDecreasing ==
    \A i \in Tasks :
        i + 1 \in Tasks
          => openTasks[i].taskArrivalTime <= openTasks[i + 1].taskArrivalTime

UniformFormula ==
    \A i \in Tasks :
        openTasks[i].taskArrivalTime = (i \div ctor.arrivalRate) * ctor.arrivalInterval

InitialScheduleFails(t) ==
    /\ status = "running"
    /\ created = t
    /\ lastCall'.op = "threadCreate" /\ lastCall'.thread = t
    /\ ~schedule(State, m_core_mask, t, TRUE, now).ok

\* C18 as claimed: threadCreate(0) exits whenever schedule(0) fails;
\* threadCreate(t) for 0 < t < N does not exit when schedule(t) fails: it
\* returns the invalid core id and task t is queued.
C18_FatalOnlyForTask0 ==
    [][ \A t \in Tasks :
          InitialScheduleFails(t)
            => IF t = 0
               THEN status' = "exit: task 0 must be mapped"
               ELSE /\ status' = "running"
                    /\ lastCall'.ret = -1
                    /\ openTasks'[t].waitingInQueue ]_vars

\* C18 as amended: ... it returns the invalid core id and task t stays
\* unscheduled: queued if it has arrived, still waiting to be scheduled if
\* its arrival time lies ahead.
C18_FatalOnlyForTask0Pending ==
    [][ \A t \in Tasks :
          InitialScheduleFails(t)
            => IF t = 0
               THEN status' = "exit: task 0 must be mapped"
               ELSE /\ status' = "running"
                    /\ lastCall'.ret = -1
                    /\ ~openTasks'[t].active
                    /\ openTasks[t].taskArrivalTime <= now
                         => openTasks'[t].waitingInQueue
                    /\ openTasks[t].taskArrivalTime > now
                         => openTasks'[t].waitingToSchedule ]_vars

\* C18 witness: startup went on after threadCreate(t) of a task t > 0 that
\* had arrived but could not be scheduled: the call returned the invalid
\* core id and the task is queued behind the running task 0.
C18_Witness ==
    /\ status = "running"
    /\ lastCall.op = "threadCreate" /\ lastCall.thread \in 1 .. (NumTasks - 1)
    /\ lastCall.ret = -1
    /\ Queued(lastCall.thread)
    /\ Active(0)

\* The worker threads of task a among the worker threads W.
WorkersOf(W, a) == { i \in 1 .. Len(W) : W[i] = a }

\* The step is the threadCreate call of a worker thread of task a, made
\* while a is active, and no task has had more worker threads than its core
\* requirement leaves room for beside the primary thread.
WorkerCreatedFor(a) ==
    /\ lastCall'.op = "threadCreate"
    /\ lastCall'.thread >= NumTasks
    /\ Len(workerApp') = Len(workerApp) + 1
    /\ workerApp'[Len(workerApp')] = a
    /\ Active(a)
    /\ \A t \in Tasks :
         Cardinality(WorkersOf(workerApp', t)) <= openTasks[t].taskCoreRequirement - 1
           \/ WorkersOf(workerApp', t) = {}

\* C19 as claimed: such a threadCreate finds a core of the task that has no
\* thread, attaches the worker to it and returns it; the process does not
\* exit with "non-initial thread failed to get a core" - whatever the order
\* in which the threads of earlier tasks exited.
C19_WorkerGetsCore ==
    [][ \A a \in Tasks :
          WorkerCreatedFor(a)
            => /\ status' = "running"
               /\ lastCall'.ret \in Cores
               /\ systemCores[lastCall'.ret].assignedTaskID = a
               /\ systemCores[lastCall'.ret].assignedThreadID = -1
               /\ systemCores'[lastCall'.ret].assignedThreadID = lastCall'.thread
             ]_vars

\* schedule(t, isInitialCall, now) called in st either succeeds or leaves
\* everything but the queue flags of t as it was.
FailingScheduleClean(st, t, isInitialCall) ==
    LET r == schedule(st, m_core_mask, t, isInitialCall, now)
    IN  ~r.ok
          => /\ r.st.C = st.C
             /\ r.st.A = st.A
             /\ \A u \in Tasks :
                  /\ r.st.T[u].taskStartTime = st.T[u].taskStartTime
                  /\ u # t => r.st.T[u] = st.T[u]
             /\ IF now < st.T[t].taskArrivalTime
                THEN r.st.T[t] = st.T[t]
                ELSE /\ r.st.T[t].waitingInQueue
                     /\ ~r.st.T[t].waitingToSchedule
                     /\ ~r.st.T[t].active
                     /\ ~r.st.T[t].completed

\* The same for every task of st that is waiting to be scheduled or queued.
FailingSchedulesClean(st, isInitialCall) ==
    \A t \in Tasks :
        (st.T[t].waitingToSchedule \/ st.T[t].waitingInQueue)
          => FailingScheduleClean(st, t, isInitialCall)

\* threadExit(thread_id) calls schedule in the released state if the system
\* went empty with tasks queued (line 553), and in that state after the time
\* jump and the fetch if no task was queued (line 592).
exitCallsClean(thread_id) ==
    LET s == Released(thread_id)
    IN  (numberOfFreeCores(s.C) = NumCores /\ numberOfTasksWaitingToSchedule(s.T) # 0)
          => IF numberOfTasksInQueue(s.T) # 0
             THEN FailingSchedulesClean(s, FALSE)
             ELSE FailingSchedulesClean(
                      [s EXCEPT !.T = fetchTasksIntoQueue(
                           readjustArrivalTimes(s.T,
                               timeJumpOf(nextArrivalTimeOf(s.T), now)), now)],
                      FALSE)

\* The loop of periodic (lines 789-791) calls schedule in st and, while
\* schedule succeeds, in the state it leaves.
RECURSIVE drainCallsClean(_)
drainCallsClean(st) ==
    numberOfTasksInQueue(st.T) # 0
      => /\ FailingSchedulesClean(st, FALSE)
         /\ LET r == schedule(st, m_core_mask, taskFrontOfQueue(st.T), FALSE, now)
            IN  r.ok => drainCallsClean(r.st)

\* C20: whenever schedule returns false for a task that is waiting to be
\* scheduled or queued, no core's assignedTaskID or assignedThreadID and no
\* start time has changed; if now < arrival the task's phase is unchanged,
\* otherwise the task is queued on return.  Stated for the calls the hooks
\* make now: threadCreate at startup, threadExit of a running thread,
\* periodic at a mapping epoch.
C20_FailingScheduleChangesNothing ==
    status = "running"
      => /\ created < NumTasks => FailingSchedulesClean(State, TRUE)
         /\ \A x \in AttachedThreads : exitCallsClean(x)
         /\ now % mappingEpoch = 0
              => drainCallsClean([State EXCEPT !.T = fetchTasksIntoQueue(openTasks, now)])

\* C20 witness: periodic has called schedule for the head of the queue at
\* an epoch and it failed for want of free cores: the task is queued, and a
\* task admitted earlier still has its cores, its thread and its start time.
C20_Witness ==
    /\ lastCall.op = "periodic" /\ now % mappingEpoch = 0
    /\ \E t \in Tasks :
         /\ Queued(t) /\ t = taskFrontOfQueue(openTasks)
         /\ openTasks[t].taskArrivalTime = now
         /\ openTasks[t].taskCoreRequirement > numberOfFreeCores(systemCores)
         /\ ~schedule(State, m_core_mask, t, FALSE, now).ok
    /\ \E u \in Tasks, c \in Cores :
         /\ Active(u) /\ openTasks[u].taskStartTime < now
         /\ systemCores[c].assignedTaskID = u
         /\ systemCores[c].assignedThreadID = u

\* The core array schedule is called on in this step: threadExit calls it
\* after the release (lines 519-547), the other hooks on the cores as they
\* are.
CoresAtCall ==
    IF lastCall'.op = "threadExit" /\ lastCall'.thread \in AttachedThreads
    THEN Released(lastCall'.thread).C
    ELSE systemCores

\* The tasks schedule returned true for in this step.
Admitted == { t \in Tasks : ~Active(t) /\ openTasks'[t].active }

\* Every task for which schedule returns true in this step holds exactly
\* taskCoreRequirement cores afterwards, all of them unassigned before the
\* call, and is active with start time now; the assignedTaskID of every
\* other core is what it was before the call.
C21_ReservesExactly ==
    /\ \A t \in Admitted :
         LET mine == { c \in Cores : systemCores'[c].assignedTaskID = t }
         IN  /\ Cardinality(mine) = openTasks[t].taskCoreRequirement
             /\ \A c \in mine : CoresAtCall[c].assignedTaskID = -1
             /\ openTasks'[t].taskStartTime = now
             /\ ~openTasks'[t].waitingInQueue /\ ~openTasks'[t].waitingToSchedule
    /\ \A c \in Cores :
         systemCores'[c].assignedTaskID \notin Admitted
           => systemCores'[c].assignedTaskID = CoresAtCall[c].assignedTaskID

\* An active task holds as many cores as it requires.
C21_ActiveHoldsRequirement ==
    \A t \in Tasks :
        Active(t) => Cardinality(CoresOf(t)) = openTasks[t].taskCoreRequirement

\* C21: a successful schedule reserves exactly the required cores: the
\* task gets exactly taskCoreRequirement cores that were unassigned before
\* the call, no other core's assignedTaskID changes, the task is active
\* with taskStartTime = now, and until the task completes the number of
\* cores assigned to it stays equal to its core requirement.
C21_ScheduleReservesCores ==
    [] C21_ActiveHoldsRequirement /\ [][C21_ReservesExactly]_vars

\* C21 witness: periodic has admitted a task at an epoch after startup: it
\* holds its cores and started now, beside a task that was admitted earlier
\* and still holds its own.
C21_Witness ==
    /\ lastCall.op = "periodic" /\ now > 0
    /\ \E t, u \in Tasks :
         /\ Active(t) /\ openTasks[t].taskStartTime = now
         /\ openTasks[t].taskCoreRequirement >= 1
         /\ Cardinality(CoresOf(t)) = openTasks[t].taskCoreRequirement
         /\ Active(u) /\ openTasks[u].taskStartTime < now
         /\ openTasks[u].taskCoreRequirement >= 1
         /\ Cardinality(CoresOf(u)) = openTasks[u].taskCoreRequirement

\* What setAffinity(thread_id), called on the core array C for a thread of
\* task app_id, is to leave (C2) and return (coreFound).
SetAffinityContract(C, thread_id, app_id, C2, coreFound) ==
    LET cand == { i \in Cores : C[i].assignedTaskID = app_id
                                /\ C[i].assignedThreadID = -1 }
    IN  /\ IF cand = {}
           THEN coreFound = -1 /\ C2 = C
           ELSE /\ coreFound = MinOf(cand)
                /\ C2[coreFound].assignedThreadID = thread_id
        /\ \A i \in Cores : C2[i].assignedTaskID = C[i].assignedTaskID
        /\ \A i \in Cores :
             i # coreFound => C2[i].assignedThreadID = C[i].assignedThreadID

\* Line 423: schedule(t, false, now) called in st wakes the primary thread
\* of t on the core array the mapping left.
wakeKeepsContract(st, t) ==
    LET r == schedule(st, m_core_mask, t, FALSE, now)
        m == executeMappingPolicy(st.T, st.C, m_core_mask, t)
    IN  r.ok => SetAffinityContract(m.C, t, t, r.st.C,
                                    setAffinity(m.C, t, t).coreFound)

\* The schedule calls of threadExit(thread_id) (lines 553 and 592).
exitWakesKeepContract(thread_id) ==
    LET s == Released(thread_id)
        s2 == [s EXCEPT !.T = fetchTasksIntoQueue(
                   readjustArrivalTimes(s.T,
                       timeJumpOf(nextArrivalTimeOf(s.T), now)), now)]
    IN  (numberOfFreeCores(s.C) = NumCores /\ numberOfTasksWaitingToSchedule(s.T) # 0)
          => IF numberOfTasksInQueue(s.T) # 0
             THEN wakeKeepsContract(s, taskFrontOfQueue(s.T))
             ELSE taskFrontOfQueue(s2.T) # -1
                    => wakeKeepsContract(s2, taskFrontOfQueue(s2.T))

\* The schedule calls of the loop of periodic (lines 789-791).
RECURSIVE drainWakesKeepContract(_)
drainWakesKeepContract(st) ==
    numberOfTasksInQueue(st.T) # 0
      => /\ wakeKeepsContract(st, taskFrontOfQueue(st.T))
         /\ LET r == schedule(st, m_core_mask, taskFrontOfQueue(st.T), FALSE, now)
            IN  r.ok => drainWakesKeepContract(r.st)

\* C22: setAffinity(thread) attaches the thread to the lowest-indexed core
\* whose assignedTaskID is the thread's app id and whose assignedThreadID is
\* unset, and returns that index; if there is no such core it returns -1 and
\* changes no core record; no assignedTaskID and no other core's
\* assignedThreadID changes.  Stated for every call the hooks make: in
\* threadCreate (line 473, after schedule for a primary thread) and in the
\* schedule calls of threadExit and periodic (line 423).
C22_SetAffinityAttachesFirstFree ==
    [][ /\ (lastCall'.op = "threadCreate" /\ lastCall'.thread >= NumTasks)
             => SetAffinityContract(systemCores, lastCall'.thread,
                                    workerApp'[Len(workerApp')],
                                    systemCores', lastCall'.ret)
        /\ (lastCall'.op = "threadCreate" /\ lastCall'.thread < NumTasks)
             => LET t == lastCall'.thread
                    r == schedule(State, m_core_mask, t, TRUE, now)
                IN  (t # 0 \/ r.ok)
                      => SetAffinityContract(r.st.C, t, t, systemCores', lastCall'.ret)
        /\ lastCall'.op = "threadExit" => exitWakesKeepContract(lastCall'.thread)
        /\ lastCall'.op = "periodic" /\ now % mappingEpoch = 0
             => drainWakesKeepContract(
                    [State EXCEPT !.T = fetchTasksIntoQueue(openTasks, now)])
      ]_vars

\* C22 witness: a worker thread was created for a task with two cores of
\* which the lower one carries the primary thread: the worker is on the
\* higher one, which threadCreate returned.
C22_Witness ==
    /\ lastCall.op = "threadCreate" /\ lastCall.thread >= NumTasks
    /\ status = "running"
    /\ lastCall.ret = 1
    /\ systemCores[1].assignedThreadID = lastCall.thread
    /\ systemCores[0].assignedThreadID = systemCores[0].assignedTaskID
    /\ systemCores[0].assignedTaskID = systemCores[1].assignedTaskID

\* C23: when the primary thread of an active task t exits at time now,
\* then on return no core has assignedTaskID = t, the task is completed and
\* not active with taskDepartureTime = now, and before the call admits any
\* other task (lines 549-595) the number of free cores has grown by exactly
\* the task's core requirement.
C23_PrimaryExitCompletesTask ==
    [][ \A t \in Tasks :
          (IsThreadExitOf(t) /\ Active(t))
            => /\ \A c \in Cores : systemCores'[c].assignedTaskID # t
               /\ openTasks'[t].completed /\ ~openTasks'[t].active
               /\ ~openTasks'[t].waitingInQueue /\ ~openTasks'[t].waitingToSchedule
               /\ openTasks'[t].taskDepartureTime = now
               /\ numberOfFreeCores(Released(t).C)
                    = numberOfFreeCores(systemCores) + openTasks[t].taskCoreRequirement
               /\ \A c \in Cores : Released(t).C[c].assignedTaskID # t ]_vars

\* C23 witness: the primary thread of a task that held every core has
\* exited; the task is completed with departure time now, and the same call
\* admitted the next task, which started now on the released cores.
C23_Witness ==
    /\ lastCall.op = "threadExit" /\ lastCall.thread < NumTasks
    /\ Completed(lastCall.thread)
    /\ openTasks[lastCall.thread].taskDepartureTime = now
    /\ openTasks[lastCall.thread].taskCoreRequirement = NumCores
    /\ \E u \in Tasks :
         /\ Active(u) /\ openTasks[u].taskStartTime = now
         /\ CoresOf(u) # {}

\* The empty-system branch (line 549) fires in the threadExit call of
\* thread_id.
EmptySystemBranchFires(thread_id) ==
    LET s == Released(thread_id)
    IN  numberOfFreeCores(s.C) = NumCores /\ WaitingIn(s.T) # {}

\* C24: the exit of a worker thread x (x >= N) is a pure detach: it clears
\* assignedThreadID on exactly the cores x was attached to and leaves every
\* core's assignedTaskID and every task's phase, arrival time, start time
\* and departure time unchanged - unless the empty-system branch of the call
\* fires (all cores free and a task waiting to be scheduled).
C24_WorkerExitDetachesOnly ==
    [][ \A x \in AllThreads :
          (x >= NumTasks /\ IsThreadExitOf(x))
            => /\ \A c \in Cores : systemCores'[c].assignedThreadID # x
               /\ ~EmptySystemBranchFires(x)
                    => /\ \A c \in Cores :
                            /\ systemCores'[c].assignedTaskID
                                 = systemCores[c].assignedTaskID
                            /\ systemCores'[c].assignedThreadID
                                 = IF systemCores[c].assignedThreadID = x THEN -1
                                   ELSE systemCores[c].assignedThreadID
                       /\ openTasks' = openTasks
                       /\ status' = "running" ]_vars

\* C24 witness: a worker thread of an active task has exited while a task
\* is waiting to be scheduled: the task still holds its cores, one of them
\* without a thread now, and the waiting task is where it was.
C24_Witness ==
    /\ lastCall.op = "threadExit" /\ lastCall.thread >= NumTasks
    /\ LET a == AppOf(workerApp, lastCall.thread)
       IN  /\ Active(a)
           /\ Cardinality(CoresOf(a)) = 2
           /\ \E c \in CoresOf(a) : systemCores[c].assignedThreadID = -1
           /\ \E c \in CoresOf(a) : systemCores[c].assignedThreadID = a
    /\ \E t \in Tasks : WaitingToSchedule(t)

\* The step is a periodic call at a mapping epoch.
IsEpochCall == lastCall'.op = "periodic" /\ now % mappingEpoch = 0

\* C25: at every periodic call at a multiple of mappingEpoch, every task
\* that is waiting to be scheduled with arrival <= now is moved to the queue
\* first; the queued tasks are then admitted in increasing id order; the
\* loop makes at most one schedule call per queued task plus one failing
\* call; and on return either no task is queued, or the lowest-indexed
\* queued task cannot be admitted and no task with a higher id was admitted
\* past it.
C25_EpochDrain ==
    [][ IsEpochCall =>
          LET fetched == [State EXCEPT !.T = fetchTasksIntoQueue(openTasks, now)]
              Q == QueuedIn(fetched.T)
              head == taskFrontOfQueue(openTasks')
          IN  /\ status' = "running"
              /\ \A t \in Tasks :
                   WaitingToSchedule(t)
                     => IF openTasks[t].taskArrivalTime <= now
                        THEN t \in Q /\ ~openTasks'[t].waitingToSchedule
                        ELSE openTasks'[t] = openTasks[t]
              /\ Admitted \subseteq Q
              /\ Len(admitOrder') = Len(admitOrder) + Cardinality(Admitted)
              /\ \A p, q \in (Len(admitOrder) + 1) .. Len(admitOrder') :
                   p < q => admitOrder'[p] < admitOrder'[q]
              /\ drainCalls(fetched, m_core_mask, now, Cardinality(Q) + 2)
                   <= Cardinality(Q) + 1
              /\ drainCalls(fetched, m_core_mask, now, Cardinality(Q) + 2)
                   <= Cardinality(Admitted) + 1
              /\ QueuedIn(openTasks') = Q \ Admitted
              /\ QueuedIn(openTasks') # {}
                   => /\ ~schedule([ T |-> openTasks', C |-> systemCores',
                                     A |-> admitOrder' ],
                                   m_core_mask, head, FALSE, now).ok
                      /\ \A j \in Admitted : j < head ]_vars

\* C25 witness: periodic at an epoch after startup has admitted a task of
\* the queue and stopped at a task with a higher id, which has arrived and
\* is still queued.
C25_Witness ==
    /\ lastCall.op = "periodic" /\ now % mappingEpoch = 0 /\ now > 0
    /\ \E t, u \in Tasks :
         /\ t < u
         /\ Active(t) /\ openTasks[t].taskStartTime = now
         /\ openTasks[t].taskCoreRequirement >= 1
         /\ Queued(u) /\ openTasks[u].taskArrivalTime <= now
         /\ openTasks[u].taskCoreRequirement >= 1

(***************************************************************************)
(* The search for the next arrival in the time-jump branch of threadExit   *)
(* (lines 558-576), for every combination of arrival times of the tasks    *)
(* that are waiting to be scheduled.  Task 0 ran first and has completed   *)
(* (startup exits otherwise); each other task is waiting or completed.     *)
(***************************************************************************)
completedTask(name, requirement, arrival, departure) ==
    [openTask(name, requirement, arrival) EXCEPT
        !.waitingToSchedule = FALSE, !.completed = TRUE,
        !.taskStartTime = arrival, !.taskDepartureTime = departure]

ScanInit ==
    /\ \E time \in 1 .. MaxTime,
          arrivals \in [Tasks -> ArrivalTimes],
          waiting \in (SUBSET (Tasks \ {0})) \ {{}} :
          /\ now = time
          /\ arrivals[0] = 0
          /\ openTasks = [t \in Tasks |->
                 LET name == [suite |-> "splash2", benchmark |-> "fft", parallelism |-> 1]
                 IN  IF t \in waiting THEN openTask(name, 1, arrivals[t])
                     ELSE completedTask(name, 1, IF arrivals[t] <= time
                                                 THEN arrivals[t] ELSE time, time)]
    /\ systemCores = [c \in Cores |-> openCore]
    /\ m_core_mask = [c \in Cores |-> TRUE]
    /\ created = NumTasks
    /\ workerApp = << >>
    /\ status = "running"
    /\ lastCall = [ op |-> "threadExit", thread |-> 0, ret |-> -1 ]
    /\ admitOrder = << >>
    /\ ctor = [ pc |-> "scan", nextArrivalTime |-> 0 ]

scanUnchanged ==
    UNCHANGED << openTasks, systemCores, m_core_mask, now, created, workerApp,
                 lastCall, admitOrder >>

\* Lines 560-571.
ScanArrivals ==
    /\ ctor.pc = "scan"
    /\ ctor' = [ pc |-> "check", nextArrivalTime |-> nextArrivalTimeOf(openTasks) ]
    /\ UNCHANGED status
    /\ scanUnchanged

\* Lines 573-576.
ScanCheck ==
    /\ ctor.pc = "check"
    /\ IF ctor.nextArrivalTime = 0
       THEN /\ status' = "exit: nextArrivalTime == 0"
            /\ ctor' = [ctor EXCEPT !.pc = "exit"]
       ELSE /\ status' = status
            /\ ctor' = [ctor EXCEPT !.pc = "jump"]
    /\ scanUnchanged

ScanNext == ScanArrivals \/ ScanCheck

ScanSpec == ScanInit /\ [][ScanNext]_vars

\* The minimum arrival time of the tasks that are waiting to be scheduled.
MinWaitingArrival ==
    MinOf({ openTasks[t].taskArrivalTime : t \in WaitingIn(openTasks) })

UInt64Diff(a, b) == (a - b) % UInt64Mod

\* Arrival <= start for an active or completed task, start <= departure for
\* a completed one; hence the three differences the code prints (lines 546
\* and 603) do not wrap, and response = service + wait.
C27_TimestampsOrdered ==
    \A t \in Tasks :
        LET arrival == openTasks[t].taskArrivalTime
            start == openTasks[t].taskStartTime
            departure == openTasks[t].taskDepartureTime
        IN  /\ (Active(t) \/ Completed(t))
                 => /\ arrival <= start
                    /\ UInt64Diff(start, arrival) = start - arrival
            /\ Completed(t)
                 => /\ start <= departure
                    /\ UInt64Diff(departure, start) = departure - start
                    /\ UInt64Diff(departure, arrival) = departure - arrival
                    /\ UInt64Diff(departure, arrival)
                         = UInt64Diff(departure, start) + UInt64Diff(start, arrival)

\* No step changes the arrival time or the start time of a task that is
\* active or completed, nor the departure time of a completed task: the
\* time jump touches only tasks that are waiting to be scheduled.
C27_TimestampsKept ==
    \A t \in Tasks :
        /\ (Active(t) \/ Completed(t))
             => /\ openTasks'[t].taskArrivalTime = openTasks[t].taskArrivalTime
                /\ openTasks'[t].taskStartTime = openTasks[t].taskStartTime
        /\ Completed(t)
             => openTasks'[t].taskDepartureTime = openTasks[t].taskDepartureTime

\* C27: in every reachable state every active or completed task has
\* taskArrivalTime <= taskStartTime and every completed task has
\* taskStartTime <= taskDepartureTime, so the unsigned subtractions for
\* wait, service and response never underflow and response = service +
\* wait; this holds with the arrival times as the time jumps adjusted them
\* (host time does not decrease).
C27_TimestampOrdering ==
    [] C27_TimestampsOrdered /\ [][C27_TimestampsKept]_vars

\* C27 witness: a task whose arrival time a time jump lowered to the time
\* of the jump has completed, and so has a task that waited in the queue
\* before it started.
C27_Witness ==
    /\ \E t \in Tasks :
         /\ Completed(t)
         /\ openTasks[t].taskArrivalTime \notin ArrivalTimes
         /\ openTasks[t].taskStartTime = openTasks[t].taskArrivalTime
         /\ openTasks[t].taskDepartureTime > openTasks[t].taskStartTime
    /\ \E u \in Tasks :
         /\ Completed(u)
         /\ openTasks[u].taskArrivalTime < openTasks[u].taskStartTime
         /\ openTasks[u].taskStartTime < openTasks[u].taskDepartureTime

====
